---- MODULE Spec2Model ----
(***************************************************************************)
(* A model of the decision core of grok-news-arb:                          *)
(*   - the headline deduplicator (isNewHeadline / similarity),             *)
(*   - the fair-value engine (estimateFairValue, calculateBaseShift,       *)
(*     getSignal),                                                         *)
(*   - the monitoring loop (startMonitoring and its poll closure).         *)
(*                                                                         *)
(* Text is modelled character by character: a string is a sequence of      *)
(* one-character strings, so that toLowerCase, trim, the punctuation       *)
(* regex and split(' ') are computed the way the JavaScript computes them. *)
(*                                                                         *)
(* Prices, magnitudes and confidences are exact decimals held as integers  *)
(* in units of 10^-7 (UNIT == 1.0); the products of the engine             *)
(* (shift * 0.2 * confidence) are exact at that scale.  IEEE-754 rounding  *)
(* of the doubles is not modelled.                                         *)
(***************************************************************************)
EXTENDS Integers, Sequences, FiniteSets, TLC

VARIABLES
    seenHeadlines,   \* module-level Set<string>, in insertion order
    lastCall,        \* the last top-level isNewHeadline call and its result
    firstAccepted,   \* history: the first headline ever accepted
    acceptCount,     \* history: number of accepted headlines (saturating)
    estimate,        \* the last result of estimateFairValue.execute
    mon,             \* the state of one startMonitoring instance
    once,            \* the last call of analyzeOnce and its result
    verification,    \* the last run of runVerificationAgent
    trade,           \* the last call of generateTradeRecommendation.execute
    simCall,         \* the last call of similarity
    quick            \* the last call of quickAnalyze and its outcome

\* The variables of the tools that are called on their own
toolVars == <<once, verification, trade, simCall, quick>>

vars == <<seenHeadlines, lastCall, firstAccepted, acceptCount, estimate, mon,
          toolVars>>

----------------------------------------------------------------------------
(* Characters and strings                                                  *)

LowerLetters == {"a", "b", "c", "d", "e", "f"}
UpperLetters == {"A", "B"}
SpaceChars == {" "}

\* String.prototype.toLowerCase, per character
ToLowerChar(c) ==
    CASE c = "A" -> "a"
      [] c = "B" -> "b"
      [] OTHER -> c

\* \w of the regex: letters (digits and underscore are not in the alphabet)
IsWordChar(c) == c \in LowerLetters \cup UpperLetters

\* \s of the regex, and what trim() removes
IsSpaceChar(c) == c \in SpaceChars

toLowerCase(s) == [i \in 1..Len(s) |-> ToLowerChar(s[i])]

RECURSIVE TrimStart(_)
TrimStart(s) ==
    IF s # <<>> /\ IsSpaceChar(Head(s)) THEN TrimStart(Tail(s)) ELSE s

RECURSIVE TrimEnd(_)
TrimEnd(s) ==
    IF s # <<>> /\ IsSpaceChar(s[Len(s)])
    THEN TrimEnd(SubSeq(s, 1, Len(s) - 1))
    ELSE s

\* String.prototype.trim
trim(s) == TrimEnd(TrimStart(s))

\* .replace(/[^\w\s]/g, '')
KeepChar(c) == IsWordChar(c) \/ IsSpaceChar(c)
StripPunctuation(s) == SelectSeq(s, KeepChar)

\* const normalized = headline.toLowerCase().trim().replace(/[^\w\s]/g, '')
normalized(headline) == StripPunctuation(trim(toLowerCase(headline)))

\* The reading of the specification: lowercase, strip punctuation, trim.
LowerStripTrim(headline) == trim(StripPunctuation(toLowerCase(headline)))

\* String.prototype.split(' '): the pieces between single spaces, empty
\* pieces included; ''.split(' ') is [''].
RECURSIVE split(_)
split(s) ==
    IF \A i \in 1..Len(s) : s[i] # " "
    THEN <<s>>
    ELSE LET i == CHOOSE k \in 1..Len(s) :
                      s[k] = " " /\ \A j \in 1..(k - 1) : s[j] # " "
         IN  <<SubSeq(s, 1, i - 1)>> \o split(SubSeq(s, i + 1, Len(s)))

Range(f) == {f[i] : i \in DOMAIN f}

\* new Set(a.split(' '))
TokenSet(s) == Range(split(s))

\* similarity(a, b): intersection.size / union.size, kept as the exact
\* fraction num/den.
similarity(a, b) ==
    LET setA == TokenSet(a)
        setB == TokenSet(b)
    IN  [num |-> Cardinality(setA \cap setB), den |-> Cardinality(setA \cup setB)]

\* similarity(normalized, seen) > 0.8, on the exact fraction
TooSimilarInclusive(a, b) ==
    LET r == similarity(a, b) IN r.den > 0 /\ 10 * r.num >= 8 * r.den
TooSimilar(a, b) ==
    LET r == similarity(a, b) IN r.den > 0 /\ 10 * r.num > 8 * r.den

----------------------------------------------------------------------------
(* The headline deduplicator                                               *)

\* The capacity of the recency set.  The source keeps 1000 headlines
\* (seenHeadlines.size > 1000); the model keeps MaxSeen.
MaxSeen == 2

\* seenHeadlines.has(x)
Has(s, x) == \E i \in 1..Len(s) : s[i] = x

\* if (seenHeadlines.size > 1000) delete the first value of the iteration
\* order, which for a JavaScript Set is the insertion order
EvictNewest(s) == IF Len(s) > MaxSeen THEN SubSeq(s, 1, Len(s) - 1) ELSE s
EvictOverflow(s) == IF Len(s) > MaxSeen THEN Tail(s) ELSE s

\* The value isNewHeadline(headline) returns when the set holds s.
isNewHeadline(headline, s) ==
    LET n == normalized(headline)
    IN  /\ ~Has(s, n)
        /\ \A i \in 1..Len(s) : ~TooSimilar(n, s[i])

\* The set isNewHeadline(headline) leaves behind when it held s.
seenAfterRaw(headline, s) ==
    IF isNewHeadline(headline, s)
    THEN EvictOverflow(Append(s, headline))
    ELSE s
seenAfterTouch(headline, s) ==
    IF isNewHeadline(headline, s)
    THEN EvictOverflow(Append(s, normalized(headline)))
    ELSE LET n == normalized(headline)
             i == CHOOSE k \in 1..Len(s) : s[k] = n \/ TooSimilar(n, s[k])
         IN  SubSeq(s, 1, i - 1) \o SubSeq(s, i + 1, Len(s)) \o <<s[i]>>
seenAfter(headline, s) ==
    IF isNewHeadline(headline, s)
    THEN EvictOverflow(Append(s, normalized(headline)))
    ELSE s

\* The headlines offered to the deduplicator.  They differ in case,
\* punctuation, surrounding blanks, word order and word count: 4 of 5 words
\* shared is a similarity of exactly 0.8, 5 of 6 is above it.
Headlines ==
    { <<>>,
      <<"a">>,
      <<"A">>,
      <<"a", "!">>,
      <<" ", "a">>,
      <<"!", " ", "a">>,
      <<"b">>,
      <<"a", " ", "b">>,
      <<"B", " ", "a", "!">>,
      <<"a", " ", "b", " ", "c", " ", "d">>,
      <<"a", " ", "b", " ", "c", " ", "d", " ", "e">>,
      <<"a", " ", "b", " ", "c", " ", "d", " ", "e", " ", "f">> }

NoCall == [called |-> FALSE, headline |-> <<>>, result |-> FALSE, again |-> FALSE]

\* One call isNewHeadline(h) from outside a monitor tick.  lastCall.again
\* records that the call before it was for the same h and returned true.
IsNewHeadlineCall ==
    \E h \in Headlines :
        LET r == isNewHeadline(h, seenHeadlines)
        IN  /\ seenHeadlines' = seenAfter(h, seenHeadlines)
            /\ lastCall' = [called |-> TRUE, headline |-> h, result |-> r,
                            again |-> lastCall.called /\ lastCall.result
                                      /\ lastCall.headline = h]
            /\ firstAccepted' =
                   IF r /\ firstAccepted = <<>> THEN <<h>> ELSE firstAccepted
            /\ acceptCount' =
                   IF r /\ acceptCount < MaxSeen + 2
                   THEN acceptCount + 1
                   ELSE acceptCount
            /\ UNCHANGED <<estimate, mon, toolVars>>

----------------------------------------------------------------------------
(* The fair-value engine                                                   *)
(*                                                                         *)
(* Inputs are given in hundredths (a price of 65 is 0.65); amounts inside  *)
(* the engine are integers in units of 10^-7.                              *)

\* n hundredths, in units of 10^-7
Hundredths(n) == n * 100000

Abs(x) == IF x < 0 THEN -x ELSE x
Min(a, b) == IF a < b THEN a ELSE b
Max(a, b) == IF a > b THEN a ELSE b

\* Math.round(x * 100) / 100, as a number of hundredths: Math.round rounds
\* half up, towards +Infinity.
RoundToCents(x) == (x + 50000) \div 100000

\* calculateBaseShift, the schedule before the direction is applied, in
\* units of 10^-4 for a magnitude in hundredths:
\*   magnitude > 0.8 : 0.15 + (magnitude - 0.8) * 0.5
\*   magnitude > 0.5 : 0.05 + (magnitude - 0.5) * 0.33
\*   else            : magnitude * 0.1
ShiftScheduleInclusive(magnitude) ==
    IF magnitude >= 80 THEN 1500 + (magnitude - 80) * 50
    ELSE IF magnitude > 50 THEN 500 + (magnitude - 50) * 33
    ELSE magnitude * 10
ShiftSchedule(magnitude) ==
    IF magnitude > 80 THEN 1500 + (magnitude - 80) * 50
    ELSE IF magnitude > 50 THEN 500 + (magnitude - 50) * 33
    ELSE magnitude * 10

\* calculateBaseShift(magnitude, direction), in units of 10^-5
calculateBaseShift(magnitude, direction) ==
    LET shift == ShiftSchedule(magnitude)
    IN  IF direction = "negative" THEN -(shift * 10)
        ELSE IF direction = "neutral" THEN shift * 2
        ELSE shift * 10

\* getSignal(edge, confidence, liquidity): edge in units of 10^-7,
\* confidence in hundredths, liquidity in USD
getSignalNoLiquidityFloor(edge, confidence, liquidity) ==
    LET edgeAbs == Abs(edge)
        direction == IF edge > 0 THEN "long"
                     ELSE IF edge < 0 THEN "short" ELSE "hold"
    IN  IF liquidity < 0 THEN [signal |-> "hold", direction |-> "hold"]
        ELSE IF confidence < 50 THEN [signal |-> "hold", direction |-> "hold"]
        ELSE IF edgeAbs > Hundredths(15) /\ confidence > 70
             THEN [signal |-> IF edge > 0 THEN "strong_buy" ELSE "strong_sell",
                   direction |-> direction]
        ELSE IF edgeAbs > Hundredths(8) /\ confidence > 60
             THEN [signal |-> IF edge > 0 THEN "buy" ELSE "sell",
                   direction |-> direction]
        ELSE IF edgeAbs > Hundredths(5)
             THEN [signal |-> IF edge > 0 THEN "buy" ELSE "sell",
                   direction |-> direction]
        ELSE [signal |-> "hold", direction |-> "hold"]
getSignalStrongAtSeventy(edge, confidence, liquidity) ==
    LET edgeAbs == Abs(edge)
        direction == IF edge > 0 THEN "long"
                     ELSE IF edge < 0 THEN "short" ELSE "hold"
    IN  IF liquidity < 10000 THEN [signal |-> "hold", direction |-> "hold"]
        ELSE IF confidence < 50 THEN [signal |-> "hold", direction |-> "hold"]
        ELSE IF edgeAbs > Hundredths(15) /\ confidence >= 70
             THEN [signal |-> IF edge > 0 THEN "strong_buy" ELSE "strong_sell",
                   direction |-> direction]
        ELSE IF edgeAbs > Hundredths(8) /\ confidence > 60
             THEN [signal |-> IF edge > 0 THEN "buy" ELSE "sell",
                   direction |-> direction]
        ELSE IF edgeAbs > Hundredths(5)
             THEN [signal |-> IF edge > 0 THEN "buy" ELSE "sell",
                   direction |-> direction]
        ELSE [signal |-> "hold", direction |-> "hold"]
getSignal(edge, confidence, liquidity) ==
    LET edgeAbs == Abs(edge)
        direction == IF edge > 0 THEN "long"
                     ELSE IF edge < 0 THEN "short" ELSE "hold"
    IN  IF liquidity < 10000 THEN [signal |-> "hold", direction |-> "hold"]
        ELSE IF confidence < 50 THEN [signal |-> "hold", direction |-> "hold"]
        ELSE IF edgeAbs > Hundredths(15) /\ confidence > 70
             THEN [signal |-> IF edge > 0 THEN "strong_buy" ELSE "strong_sell",
                   direction |-> direction]
        ELSE IF edgeAbs > Hundredths(8) /\ confidence > 60
             THEN [signal |-> IF edge > 0 THEN "buy" ELSE "sell",
                   direction |-> direction]
        ELSE IF edgeAbs > Hundredths(5)
             THEN [signal |-> IF edge > 0 THEN "buy" ELSE "sell",
                   direction |-> direction]
        ELSE [signal |-> "hold", direction |-> "hold"]

\* fairValue = Math.max(0.01, Math.min(0.99, fairValue))
ClampFairValueUnit(x) == Max(0, Min(Hundredths(100), x))
ClampFairValue(x) == Max(Hundredths(1), Min(Hundredths(99), x))

\* entryPrice: direction === 'long' ? Math.min(price + 0.02, fairValue - 0.03)
\*                                  : Math.max(price - 0.02, fairValue + 0.03)
EntryLevelSidesSwapped(direction, price, fairValue) ==
    IF direction = "long"
    THEN Max(price - Hundredths(2), fairValue + Hundredths(3))
    ELSE Min(price + Hundredths(2), fairValue - Hundredths(3))
EntryLevel(direction, price, fairValue) ==
    IF direction = "long"
    THEN Min(price + Hundredths(2), fairValue - Hundredths(3))
    ELSE Max(price - Hundredths(2), fairValue + Hundredths(3))

\* stopLoss: direction === 'long' ? price - 0.10 : price + 0.10
StopLevel(direction, price) ==
    IF direction = "long"
    THEN price - Hundredths(10)
    ELSE price + Hundredths(10)

\* estimateFairValue.execute.  The record holds the arguments, the values
\* the body computes before rounding (rawFairValue, rawEdge, unsignedShift)
\* and the fields of the returned estimate (in hundredths).
estimateFairValue(currentYesPrice, newsMagnitude, newsDirection, newsConfidence, liquidity) ==
    LET price == Hundredths(currentYesPrice)
        baseShift == calculateBaseShift(newsMagnitude, newsDirection)
        adjustedShift == baseShift * newsConfidence
        fairValue == ClampFairValue(price + adjustedShift)
        edge == fairValue - price
        sig == getSignal(edge, newsConfidence, liquidity)
        entryPrice == EntryLevel(sig.direction, price, fairValue)
        targetPrice == fairValue
        stopLoss == StopLevel(sig.direction, price)
    IN  [ called |-> TRUE,
          currentYesPrice |-> currentYesPrice,
          newsMagnitude |-> newsMagnitude,
          newsDirection |-> newsDirection,
          newsConfidence |-> newsConfidence,
          liquidity |-> liquidity,
          unsignedShift |-> ShiftSchedule(newsMagnitude),
          rawFairValue |-> fairValue,
          rawEdge |-> edge,
          rawEntryPrice |-> entryPrice,
          rawStopLoss |-> stopLoss,
          fairValue |-> RoundToCents(fairValue),
          edge |-> RoundToCents(edge),
          direction |-> sig.direction,
          signal |-> sig.signal,
          entryPrice |-> RoundToCents(entryPrice),
          targetPrice |-> RoundToCents(targetPrice),
          stopLoss |-> RoundToCents(stopLoss) ]

\* A call that has been made and has not returned yet: the arguments only.
PendingEstimate(currentYesPrice, newsMagnitude, newsDirection, newsConfidence, liquidity) ==
    [ called |-> FALSE,
      currentYesPrice |-> currentYesPrice,
      newsMagnitude |-> newsMagnitude,
      newsDirection |-> newsDirection,
      newsConfidence |-> newsConfidence,
      liquidity |-> liquidity,
      unsignedShift |-> 0, rawFairValue |-> 0, rawEdge |-> 0,
      rawEntryPrice |-> 0, rawStopLoss |-> 0, fairValue |-> 0,
      edge |-> 0, direction |-> "hold", signal |-> "hold", entryPrice |-> 0,
      targetPrice |-> 0, stopLoss |-> 0 ]

NoEstimate == PendingEstimate(0, 0, "neutral", 0, 0)

\* The arguments the parameter schema admits (prices, magnitudes and
\* confidences in [0, 1]), in hundredths; liquidity in USD.
Prices == {0, 1, 3, 10, 35, 50, 65, 90, 97, 99, 100}
Magnitudes ==
    {0, 1, 25, 49, 50, 51, 60, 65, 79, 80, 81, 85, 90, 99, 100}
Directions == {"positive", "negative", "neutral"}
Confidences == {0, 30, 35, 40, 49, 50, 60, 61, 70, 71, 90, 100}
Liquidities == {0, 9999, 10000, 50000, 100000}

EstimateRequests ==
    { PendingEstimate(p, m, d, c, l) :
        p \in Prices, m \in Magnitudes, d \in Directions,
        c \in Confidences, l \in Liquidities }

\* estimateFairValue.execute runs on the pending arguments and returns.
EstimateFairValueCall ==
    /\ ~estimate.called
    /\ estimate' = estimateFairValue(estimate.currentYesPrice,
                                     estimate.newsMagnitude,
                                     estimate.newsDirection,
                                     estimate.newsConfidence,
                                     estimate.liquidity)
    /\ UNCHANGED <<seenHeadlines, lastCall, firstAccepted, acceptCount, mon, toolVars>>

----------------------------------------------------------------------------
(* The monitoring loop: startMonitoring and its poll closure               *)
(*                                                                         *)
(* mon.pc is the await the poll closure is suspended at:                   *)
(*   "fetch"   await fetchBreakingNews(categories)                         *)
(*   "analyze" await analyzeHeadline(news.headline)                        *)
(*   "search"  await findAffectedMarkets(news.headline)                    *)
(*   "idle"    no poll is running                                          *)
(*   "failed"  the promise of poll() was rejected                          *)
(* mon.timer is the pending setTimeout(poll, pollIntervalMs).              *)
(* The callbacks onNews and onStatus belong to the caller; each call of    *)
(* one either returns or throws.                                           *)

\* The number of polls a run of the model follows
MaxPolls == 3

\* The longest list of items one fetch returns in the model
MaxFetch == 2

\* A headline field of a fetched item that is no string (item.headline is
\* whatever the JSON of the reply holds): headline.toLowerCase throws.
NotAString == <<"[number]">>

MonitorHeadlines == { <<"a">>, <<"A", "!">>, <<"b">> }

FetchedItem == MonitorHeadlines \cup {NotAString}

\* What fetchBreakingNews resolves to: the parsed items, or [] when the
\* request or the parsing failed (its own catch logs and returns []).
FetchResults ==
    UNION { [1..n -> FetchedItem] : n \in 0..MaxFetch }

\* newsItems.filter(item => isNewHeadline(item.headline)), item by item
RECURSIVE FilterNew(_, _, _)
FilterNew(items, s, kept) ==
    IF items = <<>>
    THEN [threw |-> FALSE, seen |-> s, newItems |-> kept]
    ELSE IF Head(items) = NotAString
    THEN [threw |-> TRUE, seen |-> s, newItems |-> <<>>]
    ELSE FilterNew(Tail(items),
                   seenAfter(Head(items), s),
                   IF isNewHeadline(Head(items), s)
                   THEN Append(kept, Head(items))
                   ELSE kept)

\* The calls of isNewHeadline the filter made before it ended or threw: the
\* normalized headlines it accepted and the headlines it rejected
RECURSIVE FilterTrace(_, _, _, _)
FilterTrace(items, s, accepted, rejected) ==
    IF items = <<>> \/ Head(items) = NotAString
    THEN [accepted |-> accepted, rejected |-> rejected]
    ELSE FilterTrace(Tail(items),
                     seenAfter(Head(items), s),
                     IF isNewHeadline(Head(items), s)
                     THEN accepted \cup {normalized(Head(items))}
                     ELSE accepted,
                     IF isNewHeadline(Head(items), s)
                     THEN rejected
                     ELSE rejected \cup {Head(items)})

\* An AffectedMarket as findAffectedMarkets builds it: venue, id, question,
\* similarityScore and currentPrice (undefined when the search result has
\* no yesPrice); the fair-value fields are not set.  Scores and prices are
\* in hundredths.
AffectedMarket(id, similarityScore, hasPrice, currentPrice) ==
    [ id |-> id, similarityScore |-> similarityScore,
      hasPrice |-> hasPrice, currentPrice |-> currentPrice,
      hasFairValue |-> FALSE, fairValue |-> 0, edge |-> 0,
      hasSignal |-> FALSE, signal |-> "HOLD", entryPrice |-> 0,
      targetPrice |-> 0, stopLoss |-> 0, suggestedSize |-> 0 ]

\* What findAffectedMarkets resolves to: the markets of the search, or the
\* mock markets when the key is missing or the request fails.
SearchResults ==
    { <<>>,
      << AffectedMarket("FED-26JAN-T4.50", 92, TRUE, 65) >>,
      << AffectedMarket("FED-26JAN-T4.50", 92, TRUE, 65),
         AffectedMarket("fed-rate-jan-2026", 88, FALSE, 0) >> }

\* maxMarketsPerNews = 5
maxMarketsPerNews == 5

\* markets.slice(0, n)
Slice(markets, n) == SubSeq(markets, 1, Min(n, Len(markets)))

\* mon.fetchFailed  the fetch of the current tick failed inside
\*                  fetchBreakingNews
\* mon.errorStatus  onStatus was called with the error line in this tick
\* mon.tickItems    newItems as the filter of this tick left it
\* mon.delivered    the results onNews was called with in this tick
\* mon.stoppedInTick   the stop function was called while a tick was in flight
\* mon.pollCountAtStop pollCount when the stop function was called
\* mon.timers          number of setTimeout(poll) calls that have not fired
\* mon.instance        1 for the first startMonitoring call, 2 for a later one
\* mon.acceptedHere    normalized headlines this instance's filter accepted
\* mon.rejectedHere    headlines this instance's filter rejected
\* mon.deliveredAll    the headlines this instance passed to onNews
NotStarted ==
    [ started |-> FALSE, running |-> FALSE, pollCount |-> 0, pc |-> "idle",
      timer |-> FALSE, newItems |-> <<>>, lastStatus |-> "none",
      fetchFailed |-> FALSE, errorStatus |-> FALSE, tickItems |-> <<>>,
      delivered |-> <<>>, stoppedInTick |-> FALSE,
      pollCountAtStop |-> 0, timers |-> 0, instance |-> 1,
      acceptedHere |-> {}, rejectedHere |-> {}, deliveredAll |-> <<>> ]

\* startMonitoring: running = true, the two onStatus lines, poll() up to
\* its first await, and the stop function is returned.
StartMonitoring ==
    /\ ~mon.started
    /\ mon' = [mon EXCEPT !.started = TRUE, !.running = TRUE,
                          !.pollCount = 1, !.pc = "fetch",
                          !.lastStatus = "started"]
    /\ UNCHANGED <<seenHeadlines, lastCall, firstAccepted, acceptCount, estimate, toolVars>>

\* The end of poll after the try statement: if (running) setTimeout(...)
EndOfPoll(m) ==
    [m EXCEPT !.pc = "idle", !.newItems = <<>>, !.timer = m.running,
              !.timers = IF m.running THEN m.timers + 1 ELSE m.timers]

\* The catch clause: onStatus(Error ...); when onStatus throws there, the
\* exception leaves poll and the statements after the try are not run.
CatchClauseReschedules(m, statusThrows) ==
    IF statusThrows
    THEN [m EXCEPT !.pc = "failed", !.newItems = <<>>, !.errorStatus = TRUE]
    ELSE EndOfPoll([m EXCEPT !.lastStatus = "error", !.errorStatus = TRUE,
                             !.timer = m.running,
                             !.timers = IF m.running THEN m.timers + 1
                                        ELSE m.timers])
CatchClause(m, statusThrows) ==
    IF statusThrows
    THEN [m EXCEPT !.pc = "failed", !.newItems = <<>>, !.errorStatus = TRUE]
    ELSE EndOfPoll([m EXCEPT !.lastStatus = "error", !.errorStatus = TRUE])

\* fetchBreakingNews resolves, with [] when the request or the parsing
\* failed; the filter runs; with no new item onStatus reports that and the
\* poll ends, otherwise the loop over newItems reaches its first await.
FetchReturns ==
    /\ mon.pc = "fetch"
    /\ \E failed \in BOOLEAN, statusThrows \in BOOLEAN,
          catchStatusThrows \in BOOLEAN :
       \E items \in IF failed THEN {<<>>} ELSE FetchResults :
          LET f == FilterNew(items, seenHeadlines, <<>>)
              calls == FilterTrace(items, seenHeadlines, {}, {})
              m == [mon EXCEPT !.fetchFailed = failed,
                               !.tickItems = IF f.threw THEN <<>> ELSE f.newItems,
                               !.acceptedHere = @ \cup calls.accepted,
                               !.rejectedHere = @ \cup calls.rejected]
          IN  /\ seenHeadlines' = f.seen
              /\ mon' =
                   IF f.threw
                   THEN CatchClause(m, catchStatusThrows)
                   ELSE IF f.newItems = <<>>
                   THEN IF statusThrows
                        THEN CatchClause(m, catchStatusThrows)
                        ELSE EndOfPoll([m EXCEPT !.lastStatus = "no_news"])
                   ELSE [m EXCEPT !.pc = "analyze", !.newItems = f.newItems]
    /\ UNCHANGED <<lastCall, firstAccepted, acceptCount, estimate, toolVars>>

\* analyzeHeadline resolves (it matches regular expressions on a string and
\* does not throw); findAffectedMarkets is called.
AnalyzeReturns ==
    /\ mon.pc = "analyze"
    /\ mon' = [mon EXCEPT !.pc = "search"]
    /\ UNCHANGED <<seenHeadlines, lastCall, firstAccepted, acceptCount, estimate, toolVars>>

\* The result poll passes to onNews: the news item and the markets as
\* findAffectedMarkets returned them, cut to maxMarketsPerNews.
NewsResult(headline, markets) ==
    [ headline |-> headline,
      affectedMarkets |-> Slice(markets, maxMarketsPerNews) ]

\* findAffectedMarkets resolves (it falls back to mock data on every
\* failure); onNews is called; the loop goes on to the next item or ends.
SearchReturns ==
    /\ mon.pc = "search"
    /\ \E markets \in SearchResults, newsThrows \in BOOLEAN,
          catchStatusThrows \in BOOLEAN :
          LET m == [mon EXCEPT !.delivered =
                        Append(@, NewsResult(Head(mon.newItems), markets)),
                               !.deliveredAll = Append(@, Head(mon.newItems))]
          IN  mon' =
                IF newsThrows
                THEN CatchClause(m, catchStatusThrows)
                ELSE IF Len(mon.newItems) > 1
                THEN [m EXCEPT !.pc = "analyze", !.newItems = Tail(mon.newItems)]
                ELSE EndOfPoll(m)
    /\ UNCHANGED <<seenHeadlines, lastCall, firstAccepted, acceptCount, estimate, toolVars>>

\* The timer fires and poll runs: if (!running) return; pollCount++; ...
TimerFires ==
    /\ mon.timer
    /\ mon.pc = "idle"
    /\ mon.pollCount < MaxPolls
    /\ mon' = IF ~mon.running
              THEN [mon EXCEPT !.timer = FALSE, !.timers = mon.timers - 1]
              ELSE [mon EXCEPT !.timer = FALSE, !.pc = "fetch",
                               !.timers = mon.timers - 1,
                               !.pollCount = mon.pollCount + 1,
                               !.fetchFailed = FALSE, !.errorStatus = FALSE,
                               !.tickItems = <<>>, !.delivered = <<>>]
    /\ UNCHANGED <<seenHeadlines, lastCall, firstAccepted, acceptCount, estimate, toolVars>>

\* The stop function startMonitoring returned: running = false; onStatus
StopMonitoring ==
    /\ mon.started
    /\ mon.running
    /\ mon' = [mon EXCEPT !.running = FALSE, !.lastStatus = "stopped",
                          !.pollCountAtStop = mon.pollCount,
                          !.stoppedInTick =
                              mon.pc \in {"fetch", "analyze", "search"}]
    /\ UNCHANGED <<seenHeadlines, lastCall, firstAccepted, acceptCount, estimate, toolVars>>

----------------------------------------------------------------------------
(* The verification agent: runVerificationAgent                             *)

Severities == {"LOW", "MEDIUM", "HIGH", "CRITICAL"}

SeverityRank(severity) ==
    CASE severity = "LOW" -> 1
      [] severity = "MEDIUM" -> 2
      [] severity = "HIGH" -> 3
      [] severity = "CRITICAL" -> 4

\* The highest rank among the misalignments, 0 when there is none
RECURSIVE MaxSeverityRank(_)
MaxSeverityRank(misalignments) ==
    IF misalignments = <<>>
    THEN 0
    ELSE Max(SeverityRank(Head(misalignments)),
             MaxSeverityRank(Tail(misalignments)))

\* The verifier's table from matchConfidence (hundredths) and the
\* misalignments to the recommendation, in the order of its rows.
Recommendation(matchConfidence, misalignments) ==
    LET top == MaxSeverityRank(misalignments)
    IN  IF top = 4 THEN "AVOID"
        ELSE IF matchConfidence < 50 THEN "MANUAL_REVIEW"
        ELSE IF top = 3 THEN "PROCEED_WITH_CAUTION"
        ELSE IF top <= 1 /\ matchConfidence >= 80 THEN "SAFE_TO_TRADE"
        ELSE "PROCEED_WITH_CAUTION"

\* verifyMarketPair.execute: success and the verification it carries
verifyMarketPair(candidate) ==
    [ success |-> candidate.success,
      verification |->
        [ isMatch |-> candidate.isMatch,
          matchConfidence |-> candidate.matchConfidence,
          misalignments |-> candidate.misalignments,
          recommendation |-> Recommendation(candidate.matchConfidence,
                                            candidate.misalignments) ] ]

\* price || 0.5, in cents: undefined and 0 both give 50
OrHalf(hasPrice, price) == IF hasPrice /\ price # 0 THEN price ELSE 50

\* The element pushed on matchedPairs for one verified candidate
MatchedPairIgnoresCritical(candidate, v) ==
    LET priceSpread == Abs(OrHalf(TRUE, candidate.kalshiYes)
                           - OrHalf(candidate.polyHasPrice, candidate.polyYes))
        rec == IF v.matchConfidence >= 80 THEN "SAFE_TO_TRADE"
               ELSE v.recommendation
    IN  [ kalshiPrice |-> candidate.kalshiYes,
          polyHasPrice |-> candidate.polyHasPrice,
          polyPrice |-> candidate.polyYes,
          isMatch |-> v.isMatch,
          matchConfidence |-> v.matchConfidence,
          misalignments |-> v.misalignments,
          recommendation |-> rec,
          priceSpread |-> priceSpread,
          arbitrageOpportunity |-> rec = "SAFE_TO_TRADE" /\ priceSpread > 3 ]
MatchedPairReviewsNonMatch(candidate, v) ==
    LET priceSpread == Abs(OrHalf(TRUE, candidate.kalshiYes)
                           - OrHalf(candidate.polyHasPrice, candidate.polyYes))
        rec == IF v.isMatch THEN v.recommendation ELSE "MANUAL_REVIEW"
    IN  [ kalshiPrice |-> candidate.kalshiYes,
          polyHasPrice |-> candidate.polyHasPrice,
          polyPrice |-> candidate.polyYes,
          isMatch |-> v.isMatch,
          matchConfidence |-> v.matchConfidence,
          misalignments |-> v.misalignments,
          recommendation |-> rec,
          priceSpread |-> priceSpread,
          arbitrageOpportunity |-> rec = "SAFE_TO_TRADE" /\ priceSpread > 3 ]
MatchedPair(candidate, v) ==
    LET priceSpread == Abs(OrHalf(TRUE, candidate.kalshiYes)
                           - OrHalf(candidate.polyHasPrice, candidate.polyYes))
    IN  [ kalshiPrice |-> candidate.kalshiYes,
          polyHasPrice |-> candidate.polyHasPrice,
          polyPrice |-> candidate.polyYes,
          isMatch |-> v.isMatch,
          matchConfidence |-> v.matchConfidence,
          misalignments |-> v.misalignments,
          recommendation |-> v.recommendation,
          priceSpread |-> priceSpread,
          arbitrageOpportunity |->
              v.recommendation = "SAFE_TO_TRADE" /\ priceSpread > 3 ]

\* The loop over potentialMatches.slice(0, 5): a candidate whose market is
\* not found on either venue is skipped, a failed verification pushes
\* nothing.
RECURSIVE VerifyMatches(_, _)
VerifyMatches(matches, matchedPairs) ==
    IF matches = <<>>
    THEN matchedPairs
    ELSE LET candidate == Head(matches)
             verifyResult == verifyMarketPair(candidate)
         IN  VerifyMatches(Tail(matches),
                 IF candidate.found /\ verifyResult.success
                 THEN Append(matchedPairs,
                             MatchedPair(candidate, verifyResult.verification))
                 ELSE matchedPairs)

NoVerification ==
    [ called |-> FALSE, potentialMatches |-> <<>>, matchedPairs |-> <<>> ]

\* Candidate matches: the Kalshi YES price and the Polymarket YES price in
\* cents (the latter may be absent), and what the verifier finds.
Candidate(found, kalshiYes, polyHasPrice, polyYes, success, isMatch, matchConfidence, misalignments) ==
    [ found |-> found, kalshiYes |-> kalshiYes,
      polyHasPrice |-> polyHasPrice, polyYes |-> polyYes,
      success |-> success, isMatch |-> isMatch,
      matchConfidence |-> matchConfidence, misalignments |-> misalignments ]

MisalignmentLists ==
    { <<>>, <<"LOW">>, <<"MEDIUM">>, <<"HIGH">>, <<"CRITICAL">>,
      <<"LOW", "CRITICAL">>, <<"HIGH", "LOW">>, <<"LOW", "LOW">> }

MatchConfidences == {0, 49, 50, 79, 80, 95, 100}

PolyPrices == { <<TRUE, 0>>, <<TRUE, 50>>, <<TRUE, 52>>, <<TRUE, 53>>, <<FALSE, 0>> }

FirstCandidates ==
    { Candidate(TRUE, k, p[1], p[2], TRUE, isMatch, c, ms) :
        k \in {2, 50, 56}, p \in PolyPrices, isMatch \in BOOLEAN,
        c \in MatchConfidences, ms \in MisalignmentLists }

SecondCandidates ==
    { Candidate(TRUE, 50, TRUE, 60, TRUE, TRUE, 95, <<>>),
      Candidate(TRUE, 50, TRUE, 60, TRUE, FALSE, 95, <<"LOW", "LOW">>),
      Candidate(TRUE, 50, TRUE, 60, TRUE, TRUE, 95, <<"CRITICAL", "LOW">>),
      Candidate(TRUE, 50, TRUE, 60, TRUE, FALSE, 50, <<"HIGH">>),
      Candidate(TRUE, 50, TRUE, 60, TRUE, FALSE, 49, <<"MEDIUM", "LOW">>),
      Candidate(FALSE, 50, TRUE, 60, TRUE, TRUE, 95, <<>>),
      Candidate(TRUE, 50, TRUE, 60, FALSE, TRUE, 95, <<>>) }

VerificationRequests ==
    { [NoVerification EXCEPT !.potentialMatches = <<c1, c2>>] :
        c1 \in FirstCandidates, c2 \in SecondCandidates }

\* runVerificationAgent(topic) from the matches found to its result
RunVerificationAgent ==
    /\ ~verification.called
    /\ verification' =
         [verification EXCEPT
            !.called = TRUE,
            !.matchedPairs =
                VerifyMatches(Slice(verification.potentialMatches, 5), <<>>)]
    /\ UNCHANGED <<seenHeadlines, lastCall, firstAccepted, acceptCount, estimate, mon, once, trade, simCall, quick>>

----------------------------------------------------------------------------
(* The trade sizer: generateTradeRecommendation.  Edges are in thousandths, *)
(* prices in hundredths, sizes and liquidity in whole dollars.              *)

\* action: edge > 0.03 ? 'BUY' : edge < -0.03 ? 'SELL' : 'HOLD'
TradeActionAtEngineThreshold(edge) ==
    IF edge > 50 THEN "BUY" ELSE IF edge < -50 THEN "SELL" ELSE "HOLD"
TradeAction(edge) ==
    IF edge > 30 THEN "BUY" ELSE IF edge < -30 THEN "SELL" ELSE "HOLD"

\* The factor for the edge and the factor for the liquidity, in quarters
EdgeQuarters(edgeAbs) ==
    IF edgeAbs < 50 THEN 2 ELSE IF edgeAbs < 100 THEN 3 ELSE 4
LiquidityQuarters(liquidity) ==
    IF liquidity < 20000 THEN 2 ELSE IF liquidity < 50000 THEN 3 ELSE 4

\* Math.round(sixteenths / 16 / 25) * 25: Math.round is floor(x + 0.5)
RoundToTwentyFive(sixteenths) == ((2 * sixteenths + 400) \div 800) * 25

\* suggestedSize: maxPositionSize reduced for a low edge and for a low
\* liquidity, rounded to $25, then Math.max(25, Math.min(maxPositionSize, .))
SuggestedSizeCapLast(edgeAbs, liquidity, maxPositionSize) ==
    LET sixteenths == maxPositionSize * EdgeQuarters(edgeAbs)
                                      * LiquidityQuarters(liquidity)
    IN  Min(maxPositionSize, Max(25, RoundToTwentyFive(sixteenths)))
SuggestedSize(edgeAbs, liquidity, maxPositionSize) ==
    LET sixteenths == maxPositionSize * EdgeQuarters(edgeAbs)
                                      * LiquidityQuarters(liquidity)
    IN  Max(25, Min(maxPositionSize, RoundToTwentyFive(sixteenths)))

\* generateTradeRecommendation.execute
generateTradeRecommendation(currentPrice, edge, liquidity, maxPositionSize) ==
    LET direction == IF edge > 0 THEN "long" ELSE "short"
        edgeAbs == Abs(edge)
    IN  [ called |-> TRUE,
          currentPrice |-> currentPrice, edge |-> edge,
          liquidity |-> liquidity, maxPositionSize |-> maxPositionSize,
          action |-> TradeAction(edge),
          side |-> IF direction = "long" THEN "YES" ELSE "NO",
          suggestedSize |-> SuggestedSize(edgeAbs, liquidity, maxPositionSize),
          confidence |-> IF edgeAbs > 150 THEN "HIGH"
                         ELSE IF edgeAbs > 80 THEN "MEDIUM" ELSE "LOW",
          entryLimit |-> IF direction = "long" THEN currentPrice + 2
                         ELSE currentPrice - 2,
          stopLoss |-> IF direction = "long" THEN currentPrice - 12
                       ELSE currentPrice + 12 ]

PendingTrade(currentPrice, edge, liquidity, maxPositionSize) ==
    [ called |-> FALSE,
      currentPrice |-> currentPrice, edge |-> edge,
      liquidity |-> liquidity, maxPositionSize |-> maxPositionSize,
      action |-> "HOLD", side |-> "NO", suggestedSize |-> 0,
      confidence |-> "LOW", entryLimit |-> 0, stopLoss |-> 0 ]

NoTrade == PendingTrade(50, 0, 0, 250)

TradeEdges ==
    { -200, -151, -150, -100, -99, -81, -80, -51, -50, -49, -31, -30, -29,
      0, 29, 30, 31, 40, 49, 50, 51, 80, 81, 99, 100, 150, 151, 200 }

TradeLiquidities == {0, 19999, 20000, 49999, 50000, 100000}

MaxPositionSizes == {1, 10, 25, 30, 100, 240, 250, 260, 1000}

TradeRequests ==
    { PendingTrade(p, e, l, m) :
        p \in {35, 65}, e \in TradeEdges, l \in TradeLiquidities,
        m \in MaxPositionSizes }

GenerateTradeRecommendationCall ==
    /\ ~trade.called
    /\ trade' = generateTradeRecommendation(trade.currentPrice, trade.edge,
                                            trade.liquidity,
                                            trade.maxPositionSize)
    /\ UNCHANGED <<seenHeadlines, lastCall, firstAccepted, acceptCount, estimate, mon, once, verification, simCall, quick>>

----------------------------------------------------------------------------
(* The monitor's own fair value: calculateFairValue and analyzeOnce.        *)
(* Confidence and similarityScore are in hundredths, amounts in 10^-7.      *)

\* baseShift after the direction is applied, in thousandths: the magnitude
\* is 0.85, 0.5 or 0.25, which gives 0.175, 0.05 and 0.025
MonitorBaseShift(magnitude, direction) ==
    LET baseShift == IF magnitude = "HIGH" THEN 175
                     ELSE IF magnitude = "MEDIUM" THEN 50 ELSE 25
    IN  IF direction = "negative" THEN -baseShift
        ELSE IF direction = "neutral" THEN baseShift \div 5
        ELSE baseShift

\* suggestedSize of calculateFairValue: 250, halved or at three quarters
\* for a small edge, rounded to $25
MonitorSuggestedSize(edgeAbs) ==
    RoundToTwentyFive(250 * 4 * (IF edgeAbs < Hundredths(5) THEN 2
                                 ELSE IF edgeAbs < Hundredths(10) THEN 3
                                 ELSE 4))

calculateFairValue(market, newsAnalysis) ==
    LET currentPrice == IF market.hasPrice THEN Hundredths(market.currentPrice)
                        ELSE Hundredths(50)
        adjustedShift == MonitorBaseShift(newsAnalysis.magnitude,
                                          newsAnalysis.direction)
                         * newsAnalysis.confidence * market.similarityScore
        fairValue == ClampFairValue(currentPrice + adjustedShift)
        edge == fairValue - currentPrice
        edgeAbs == Abs(edge)
        signal == IF edgeAbs > Hundredths(15) /\ newsAnalysis.confidence > 70
                  THEN IF edge > 0 THEN "STRONG_BUY" ELSE "STRONG_SELL"
                  ELSE IF edgeAbs > Hundredths(8)
                  THEN IF edge > 0 THEN "BUY" ELSE "SELL"
                  ELSE IF edgeAbs > Hundredths(5)
                  THEN IF edge > 0 THEN "BUY" ELSE "SELL"
                  ELSE "HOLD"
        entryPrice == IF edge > 0
                      THEN Min(currentPrice + Hundredths(2),
                               fairValue - Hundredths(3))
                      ELSE Max(currentPrice - Hundredths(2),
                               fairValue + Hundredths(3))
        stopLoss == IF edge > 0 THEN currentPrice - Hundredths(12)
                    ELSE currentPrice + Hundredths(12)
        held == signal = "HOLD"
    IN  [ market EXCEPT
            !.hasPrice = TRUE,
            !.currentPrice = RoundToCents(currentPrice),
            !.hasFairValue = TRUE,
            !.fairValue = RoundToCents(fairValue),
            !.edge = RoundToCents(edge),
            !.hasSignal = ~held,
            !.signal = signal,
            !.entryPrice = IF held THEN 0 ELSE RoundToCents(entryPrice),
            !.targetPrice = IF held THEN 0 ELSE RoundToCents(fairValue),
            !.stopLoss = IF held THEN 0 ELSE RoundToCents(stopLoss),
            !.suggestedSize = IF held THEN 0 ELSE MonitorSuggestedSize(edgeAbs) ]

\* analyzeOnce(headline, includeFairValue) from the analysis and the markets
\* its two awaits resolved to
analyzeOnce(analysis, markets, includeFairValue) ==
    IF includeFairValue
    THEN LET newsAnalysis ==
                 [ magnitude |-> analysis.magnitude,
                   direction |-> analysis.direction,
                   confidence |-> IF analysis.confidence = 0 THEN 70
                                  ELSE analysis.confidence ]
         IN  [i \in DOMAIN markets |-> calculateFairValue(markets[i], newsAnalysis)]
    ELSE markets

\* What analyzeHeadline resolves to
Analyses ==
    { [magnitude |-> "HIGH", direction |-> "positive", confidence |-> 95],
      [magnitude |-> "MEDIUM", direction |-> "negative", confidence |-> 75],
      [magnitude |-> "LOW", direction |-> "neutral", confidence |-> 0] }

NoOnce ==
    [ called |-> FALSE, includeFairValue |-> TRUE,
      analysis |-> [magnitude |-> "LOW", direction |-> "neutral", confidence |-> 30],
      markets |-> <<>>, affectedMarkets |-> <<>> ]

OnceRequests ==
    { [NoOnce EXCEPT !.includeFairValue = f, !.analysis = a, !.markets = ms] :
        f \in BOOLEAN, a \in Analyses, ms \in SearchResults }

AnalyzeOnce ==
    /\ ~once.called
    /\ once' = [once EXCEPT !.called = TRUE,
                            !.affectedMarkets =
                                analyzeOnce(once.analysis, once.markets,
                                            once.includeFairValue)]
    /\ UNCHANGED <<seenHeadlines, lastCall, firstAccepted, acceptCount, estimate, mon, verification, trade, simCall, quick>>

----------------------------------------------------------------------------
(* similarity called on its own                                             *)

NoSimilarity == [called |-> FALSE, a |-> <<>>, b |-> <<>>, num |-> 0, den |-> 1]

SimilarityStrings ==
    { <<>>, <<" ">>, <<" ", " ">>, <<"a">>, <<"b">>, <<"a", " ", "b">>,
      <<"b", " ", "a">>, <<"a", " ", "a">>, <<" ", "a">>, <<"a", " ">>,
      <<"a", " ", "b", " ", "c">> }

SimilarityRequests ==
    { [NoSimilarity EXCEPT !.a = a, !.b = b] :
        a \in SimilarityStrings, b \in SimilarityStrings }

SimilarityCall ==
    /\ ~simCall.called
    /\ simCall' = [simCall EXCEPT !.called = TRUE,
                                  !.num = similarity(simCall.a, simCall.b).num,
                                  !.den = similarity(simCall.a, simCall.b).den]
    /\ UNCHANGED <<seenHeadlines, lastCall, firstAccepted, acceptCount, estimate, mon, once, verification, trade, quick>>

----------------------------------------------------------------------------
\* startMonitoring is called again after the first monitor was stopped and
\* its last tick and timer are over: a new closure (running, pollCount)
\* over the same module-level seenHeadlines.
StartLaterMonitor ==
    /\ mon.started
    /\ ~mon.running
    /\ mon.pc \in {"idle", "failed"}
    /\ mon.timers = 0
    /\ mon.instance = 1
    /\ mon' = [NotStarted EXCEPT !.started = TRUE, !.running = TRUE,
                                 !.pollCount = 1, !.pc = "fetch",
                                 !.lastStatus = "started", !.instance = 2]
    /\ UNCHANGED <<seenHeadlines, lastCall, firstAccepted, acceptCount, estimate, toolVars>>

\* The steps of monitors started one after the other in one process
MonitorsNext ==
    \/ StartMonitoring
    \/ FetchReturns
    \/ AnalyzeReturns
    \/ SearchReturns
    \/ TimerFires
    \/ StopMonitoring
    \/ StartLaterMonitor

----------------------------------------------------------------------------
(* The quick analysis: quickAnalyze with the tools it calls                 *)

\* The analysis analyzeHeadline returns when the reply holds no JSON
DefaultAnalysis == [magnitude |-> 50, direction |-> "neutral", confidence |-> 30]

\* What the request to the analyzer can come to: fetch rejects, the
\* response is not ok, response.json() rejects, the content holds no JSON
\* object that parses, or the content parses.
GrokReplies ==
    {"transport_error", "http_error", "body_not_json", "content_not_json", "json"}

\* analyzeHeadline.execute: throws without GROK_API_KEY and on every
\* failure before the try statement; the default analysis when the content
\* does not parse; the parsed object otherwise.
analyzeHeadline(grokKey, reply, parsed) ==
    IF ~grokKey
    THEN [threw |-> TRUE, analysis |-> DefaultAnalysis]
    ELSE IF reply \in {"transport_error", "http_error", "body_not_json"}
    THEN [threw |-> TRUE, analysis |-> DefaultAnalysis]
    ELSE IF reply = "content_not_json"
    THEN [threw |-> FALSE, analysis |-> DefaultAnalysis]
    ELSE [threw |-> FALSE, analysis |-> parsed]

\* A market of a search result: metadata.yesPrice in hundredths and
\* metadata.liquidity, each possibly absent
SearchMarket(hasYesPrice, yesPrice, liquidity) ==
    [hasYesPrice |-> hasYesPrice, yesPrice |-> yesPrice, liquidity |-> liquidity]

\* getMockSemanticResults: five markets without a price
MockSemanticResults ==
    << SearchMarket(FALSE, 0, 125000), SearchMarket(FALSE, 0, 340000),
       SearchMarket(FALSE, 0, 85000), SearchMarket(FALSE, 0, 450000),
       SearchMarket(FALSE, 0, 95000) >>

\* semanticSearchMarkets.execute: the mock results without
\* REPLAY_LABS_API_KEY and when the request fails
semanticSearchMarkets(replayKey, searchFails, markets) ==
    IF ~replayKey \/ searchFails THEN MockSemanticResults ELSE markets

\* yesPrice: m.metadata?.yesPrice || 0.5 and
\* liquidity: m.metadata?.liquidity || m.metadata?.volume || 50000
CommonFormat(m) ==
    [ yesPrice |-> IF m.hasYesPrice /\ m.yesPrice # 0 THEN m.yesPrice ELSE 50,
      liquidity |-> IF m.liquidity # 0 THEN m.liquidity ELSE 50000 ]

\* signals.sort((a, b) => Math.abs(b.edge) - Math.abs(a.edge)), stable
RECURSIVE InsertSignal(_, _)
InsertSignal(sorted, s) ==
    IF sorted = <<>> THEN <<s>>
    ELSE IF Abs(s.edge) > Abs(Head(sorted).edge) THEN <<s>> \o sorted
    ELSE <<Head(sorted)>> \o InsertSignal(Tail(sorted), s)

RECURSIVE SortSignals(_, _)
SortSignals(signals, sorted) ==
    IF signals = <<>> THEN sorted
    ELSE SortSignals(Tail(signals), InsertSignal(sorted, Head(signals)))

\* The loop of quickAnalyze over allMarkets.slice(0, 5): estimateFairValue
\* on the market's price as it is, and a signal from
\* generateTradeRecommendation when the rounded edge is beyond 0.03.
RECURSIVE MarketSignals(_, _, _)
MarketSignals(markets, analysis, signals) ==
    IF markets = <<>>
    THEN signals
    ELSE LET market == CommonFormat(Head(markets))
             currentPrice == market.yesPrice
             est == estimateFairValue(
                        currentPrice,
                        IF analysis.magnitude # 0 THEN analysis.magnitude ELSE 50,
                        IF analysis.direction # "" THEN analysis.direction ELSE "neutral",
                        IF analysis.confidence # 0 THEN analysis.confidence ELSE 50,
                        market.liquidity)
             rec == generateTradeRecommendation(currentPrice, 10 * est.edge,
                                                market.liquidity, 250)
         IN  MarketSignals(Tail(markets), analysis,
                 IF Abs(est.edge) > 3
                 THEN Append(signals,
                             [ currentPrice |-> currentPrice,
                               fairValue |-> est.fairValue,
                               edge |-> est.edge,
                               signal |-> rec.action,
                               suggestedSize |-> rec.suggestedSize ])
                 ELSE signals)

\* quickAnalyze(headline): it rejects when analyzeHeadline throws, and
\* returns the analysis and the sorted signals otherwise.
quickAnalyze(q) ==
    LET analysis == analyzeHeadline(q.grokKey, q.reply, q.parsed)
        found == semanticSearchMarkets(q.replayKey, q.searchFails, q.found)
    IN  IF analysis.threw
        THEN [q EXCEPT !.outcome = "threw"]
        ELSE [q EXCEPT !.outcome = "returned",
                       !.analysis = analysis.analysis,
                       !.searched = Slice(found, 5),
                       !.markets = SortSignals(
                           MarketSignals(Slice(found, 5), analysis.analysis, <<>>),
                           <<>>)]

NoQuick ==
    [ outcome |-> "none", grokKey |-> TRUE, replayKey |-> TRUE,
      reply |-> "json", parsed |-> DefaultAnalysis, searchFails |-> FALSE,
      found |-> <<>>, analysis |-> DefaultAnalysis, searched |-> <<>>,
      markets |-> <<>> ]

\* What a parsed reply can hold; 0 and "" stand for a field that is absent
ParsedAnalyses ==
    { [magnitude |-> 90, direction |-> "positive", confidence |-> 90],
      [magnitude |-> 85, direction |-> "negative", confidence |-> 100],
      [magnitude |-> 0, direction |-> "", confidence |-> 0] }

\* Markets of the search service: prices inside [0, 1], absent, and outside
FoundMarkets ==
    { SearchMarket(h, p, l) :
        h \in {TRUE}, p \in {0, 3, 65, 99, 100, 150, -20},
        l \in {0, 9999, 50000} }
    \cup { SearchMarket(FALSE, 0, 50000) }

FoundLists ==
    { <<>> } \cup { <<m>> : m \in FoundMarkets }
    \cup { <<m, SearchMarket(TRUE, 35, 100000)>> : m \in FoundMarkets }

QuickRequests ==
    { [NoQuick EXCEPT !.grokKey = gk, !.replayKey = rk, !.reply = r,
                      !.parsed = a, !.searchFails = sf, !.found = ms] :
        gk \in BOOLEAN, rk \in BOOLEAN, r \in GrokReplies,
        a \in ParsedAnalyses, sf \in BOOLEAN, ms \in FoundLists }

QuickAnalyze ==
    /\ quick.outcome = "none"
    /\ quick' = quickAnalyze(quick)
    /\ UNCHANGED <<seenHeadlines, lastCall, firstAccepted, acceptCount, estimate, mon, once, verification, trade, simCall>>

\* Every step of the monitor service
MonitorNext ==
    \/ StartMonitoring
    \/ FetchReturns
    \/ AnalyzeReturns
    \/ SearchReturns
    \/ TimerFires
    \/ StopMonitoring
    \/ AnalyzeOnce

Idle ==
    /\ seenHeadlines = <<>>
    /\ lastCall = NoCall
    /\ firstAccepted = <<>>
    /\ acceptCount = 0
    /\ mon = NotStarted

Init ==
    /\ Idle
    /\ estimate = NoEstimate
    /\ once = NoOnce
    /\ verification = NoVerification
    /\ trade = NoTrade
    /\ simCall = NoSimilarity
    /\ quick = NoQuick

SpecDedup == Init /\ [][IsNewHeadlineCall]_vars

\* The fair-value engine on every request of EstimateRequests
InitFairValue ==
    /\ Idle
    /\ estimate \in EstimateRequests
    /\ once = NoOnce
    /\ verification = NoVerification
    /\ trade = NoTrade
    /\ simCall = NoSimilarity
    /\ quick = NoQuick

SpecFairValue == InitFairValue /\ [][EstimateFairValueCall]_vars

\* The monitor, and analyzeOnce on every request of OnceRequests
InitMonitor ==
    /\ Idle
    /\ estimate = NoEstimate
    /\ once \in OnceRequests
    /\ verification = NoVerification
    /\ trade = NoTrade
    /\ simCall = NoSimilarity
    /\ quick = NoQuick

SpecMonitor == InitMonitor /\ [][MonitorNext]_vars

\* One monitor and a later one in the same process
SpecMonitors == Init /\ [][MonitorsNext]_vars

\* The verification agent on every list of VerificationRequests
InitVerification ==
    /\ Idle
    /\ estimate = NoEstimate
    /\ once = NoOnce
    /\ verification \in VerificationRequests
    /\ trade = NoTrade
    /\ simCall = NoSimilarity
    /\ quick = NoQuick

SpecVerification == InitVerification /\ [][RunVerificationAgent]_vars

\* The trade sizer on every request of TradeRequests
InitTrade ==
    /\ Idle
    /\ estimate = NoEstimate
    /\ once = NoOnce
    /\ verification = NoVerification
    /\ trade \in TradeRequests
    /\ simCall = NoSimilarity
    /\ quick = NoQuick

SpecTrade == InitTrade /\ [][GenerateTradeRecommendationCall]_vars

\* similarity on every pair of SimilarityStrings
InitSimilarity ==
    /\ Idle
    /\ estimate = NoEstimate
    /\ once = NoOnce
    /\ verification = NoVerification
    /\ trade = NoTrade
    /\ simCall \in SimilarityRequests
    /\ quick = NoQuick

SpecSimilarity == InitSimilarity /\ [][SimilarityCall]_vars

\* quickAnalyze on every request of QuickRequests
InitQuick ==
    /\ Idle
    /\ estimate = NoEstimate
    /\ once = NoOnce
    /\ verification = NoVerification
    /\ trade = NoTrade
    /\ simCall = NoSimilarity
    /\ quick \in QuickRequests

SpecQuick == InitQuick /\ [][QuickAnalyze]_vars

----------------------------------------------------------------------------
(* Properties of the headline deduplicator                                 *)

\* C1: a call isNewHeadline(h) that returned true is immediately followed
\* by isNewHeadline(h) returning false: a call that repeats the headline of
\* the accepting call before it is rejected.
C1_RepeatIsRejected == lastCall.again => ~lastCall.result

\* A headline was accepted, offered again at once and rejected.
C1_Witness == lastCall.again /\ ~lastCall.result

\* Token-Jaccard similarity strictly above 0.8 between the normalized
\* headline h and an entry of the set s
HasNearDuplicate(h, s) ==
    \E i \in 1..Len(s) :
        LET r == similarity(normalized(h), s[i])
        IN  10 * r.num > 8 * r.den

\* C2: a call isNewHeadline(h) returns false and leaves the set unchanged
\* when an entry of the set has similarity > 0.8 to the normalized h;
\* otherwise it returns true and the normalized h is in the set afterwards.
C2_DuplicateIffSimilar ==
    [][ LET h == lastCall'.headline
        IN  IF HasNearDuplicate(h, seenHeadlines)
            THEN ~lastCall'.result /\ seenHeadlines' = seenHeadlines
            ELSE lastCall'.result /\ Has(seenHeadlines', normalized(h))
      ]_vars

\* A paraphrase that is no exact match of any entry was rejected by the
\* fuzzy scan.
C2_Witness ==
    /\ lastCall.called
    /\ ~lastCall.result
    /\ ~Has(seenHeadlines, normalized(lastCall.headline))
    /\ HasNearDuplicate(lastCall.headline, seenHeadlines)

\* C3: the set never holds more than MaxSeen entries, and once MaxSeen + 1
\* headlines have been accepted it holds exactly MaxSeen, the first
\* accepted headline is not among them and isNewHeadline accepts it again.
C3_CapacityAndEviction ==
    /\ Len(seenHeadlines) <= MaxSeen
    /\ acceptCount = MaxSeen + 1 =>
          /\ Len(seenHeadlines) = MaxSeen
          /\ ~Has(seenHeadlines, normalized(firstAccepted[1]))
          /\ isNewHeadline(firstAccepted[1], seenHeadlines)

\* The accepting call that overflowed the set has just returned.
C3_Witness ==
    /\ acceptCount = MaxSeen + 1
    /\ lastCall.result
    /\ Len(seenHeadlines) = MaxSeen

\* C24: a call that hits an existing entry (exact or fuzzy duplicate) leaves
\* the set and its order as they were; an accepting call appends its
\* normalized headline, and when the set was full the entry removed is the
\* one registered earliest, so eviction follows insertion order.
C24_InsertionOrderEviction ==
    [][ /\ (lastCall'.called /\ ~lastCall'.result)
              => seenHeadlines' = seenHeadlines
        /\ (lastCall'.result /\ Len(seenHeadlines) < MaxSeen)
              => seenHeadlines' =
                     Append(seenHeadlines, normalized(lastCall'.headline))
        /\ (lastCall'.result /\ Len(seenHeadlines) = MaxSeen)
              => seenHeadlines' =
                     Append(Tail(seenHeadlines), normalized(lastCall'.headline))
      ]_vars

\* A full set whose oldest entry has just been hit by a duplicate, and by it
\* alone: the entry is still the first to be evicted.
C24_Witness ==
    /\ lastCall.called
    /\ ~lastCall.result
    /\ Len(seenHeadlines) = MaxSeen
    /\ TooSimilar(normalized(lastCall.headline), seenHeadlines[1])
    /\ \A i \in 2..Len(seenHeadlines) :
           /\ seenHeadlines[i] # normalized(lastCall.headline)
           /\ ~TooSimilar(normalized(lastCall.headline), seenHeadlines[i])

\* C4: while an accepted headline is retained, every headline with the same
\* lowercased, punctuation-stripped, trimmed text is rejected.
C4_SameNormalFormRejected ==
    \A h \in Headlines :
        (\E i \in 1..Len(seenHeadlines) :
             LowerStripTrim(seenHeadlines[i]) = LowerStripTrim(h))
        => ~isNewHeadline(h, seenHeadlines)

----------------------------------------------------------------------------
(* Properties of the fair-value engine                                     *)

\* C5: the fair value lies in [0.01, 0.99], before and after the rounding
\* of the returned field.
C5_FairValueClamped ==
    estimate.called =>
        /\ estimate.rawFairValue >= Hundredths(1)
        /\ estimate.rawFairValue <= Hundredths(99)
        /\ estimate.fairValue >= 1
        /\ estimate.fairValue <= 99

\* The clamp acted: price plus shift lay above 0.99.
C5_Witness ==
    /\ estimate.called
    /\ estimate.currentYesPrice >= 99
    /\ estimate.newsDirection = "positive"
    /\ estimate.newsMagnitude > 80
    /\ estimate.newsConfidence > 70
    /\ estimate.rawFairValue = Hundredths(99)

\* C6: liquidity below 10000 gives signal hold and direction hold.
C6_LiquidityFloor ==
    (estimate.called /\ estimate.liquidity < 10000) =>
        (estimate.signal = "hold" /\ estimate.direction = "hold")

\* An edge and a confidence that would be a strong signal, held back by
\* the liquidity.
C6_Witness ==
    /\ estimate.called
    /\ estimate.liquidity < 10000
    /\ Abs(estimate.rawEdge) > Hundredths(15)
    /\ estimate.newsConfidence > 70
    /\ estimate.signal = "hold"

\* The signal the priority list gives for an unrounded edge and a confidence
BuyOrSell(edge, buy, sell) == IF edge > 0 THEN buy ELSE sell
SignalByPriority(edge, confidence) ==
    CASE confidence < 50 -> "hold"
      [] confidence >= 50 /\ Abs(edge) > Hundredths(15) /\ confidence > 70 ->
            BuyOrSell(edge, "strong_buy", "strong_sell")
      [] confidence >= 50 /\ ~(Abs(edge) > Hundredths(15) /\ confidence > 70)
         /\ Abs(edge) > Hundredths(8) /\ confidence > 60 ->
            BuyOrSell(edge, "buy", "sell")
      [] confidence >= 50 /\ ~(Abs(edge) > Hundredths(15) /\ confidence > 70)
         /\ ~(Abs(edge) > Hundredths(8) /\ confidence > 60)
         /\ Abs(edge) > Hundredths(5) ->
            BuyOrSell(edge, "buy", "sell")
      [] OTHER -> "hold"

\* C7: with liquidity of at least 10000 the signal follows the priority
\* list, on the unrounded edge.
C7_SignalPriority ==
    (estimate.called /\ estimate.liquidity >= 10000) =>
        estimate.signal = SignalByPriority(estimate.rawEdge,
                                           estimate.newsConfidence)

\* The confidence floor took priority over an edge above 0.08.
C7_Witness ==
    /\ estimate.called
    /\ estimate.liquidity >= 10000
    /\ estimate.newsConfidence < 50
    /\ Abs(estimate.rawEdge) > Hundredths(8)
    /\ estimate.signal = "hold"

\* The magnitudes of the grid of hundredths
MagnitudeGrid == 0..100

\* The band of a magnitude bounds the unsigned shift (units of 10^-4).
ShiftInBand(magnitude, shift) ==
    /\ magnitude <= 50 => shift <= 500
    /\ (magnitude > 50 /\ magnitude <= 80) => (shift >= 500 /\ shift < 1500)
    /\ magnitude > 80 => (shift >= 1500 /\ shift <= 2500)

\* No larger magnitude has a smaller shift.
ShiftMonotonic(magnitude, shift) ==
    \A m \in MagnitudeGrid : m >= magnitude => ShiftSchedule(m) >= shift

\* The step of the shift from a magnitude to the next one of the grid,
\* beyond what the steepest band (0.5 per unit of magnitude) allows: not
\* above 0 where the schedule is continuous.
JumpAfter(magnitude, shift) == ShiftSchedule(magnitude + 1) - shift - 50

C9_LevelsFollowEdge ==
    LET price == Hundredths(estimate.currentYesPrice)
        fairValue == estimate.rawFairValue
    IN  estimate.called =>
          /\ estimate.rawEdge > 0 =>
                /\ estimate.entryPrice =
                       RoundToCents(Min(price + Hundredths(2),
                                        fairValue - Hundredths(3)))
                /\ estimate.targetPrice = RoundToCents(fairValue)
                /\ estimate.stopLoss = RoundToCents(price - Hundredths(10))
          /\ estimate.rawEdge < 0 =>
                /\ estimate.entryPrice =
                       RoundToCents(Max(price - Hundredths(2),
                                        fairValue + Hundredths(3)))
                /\ estimate.targetPrice = RoundToCents(fairValue)
                /\ estimate.stopLoss = RoundToCents(price + Hundredths(10))

\* C29: for every returned estimate with a signal other than hold the
\* prices are ordered stopLoss < entryPrice < targetPrice when the direction
\* is long and targetPrice < entryPrice < stopLoss when it is short, before
\* and after the rounding of the returned fields.
C29_LevelsOrdered ==
    (estimate.called /\ estimate.signal # "hold") =>
        /\ estimate.direction \in {"long", "short"}
        /\ estimate.direction = "long" =>
              /\ estimate.stopLoss < estimate.entryPrice
              /\ estimate.entryPrice < estimate.targetPrice
              /\ estimate.rawStopLoss < estimate.rawEntryPrice
              /\ estimate.rawEntryPrice < estimate.rawFairValue
        /\ estimate.direction = "short" =>
              /\ estimate.targetPrice < estimate.entryPrice
              /\ estimate.entryPrice < estimate.stopLoss
              /\ estimate.rawFairValue < estimate.rawEntryPrice
              /\ estimate.rawEntryPrice < estimate.rawStopLoss

\* A sell whose fair value was clamped to 0.01: the edge is just beyond 0.05
\* and the three levels are still in order.
C29_Witness ==
    /\ estimate.called
    /\ estimate.signal = "sell"
    /\ estimate.direction = "short"
    /\ estimate.fairValue = 1
    /\ estimate.targetPrice < estimate.entryPrice
    /\ estimate.entryPrice < estimate.stopLoss

\* C30: for every input within contract, those with a hold signal included,
\* entryPrice differs from stopLoss, so the denominator |entry - stop| of
\* the risk/reward ratio is not zero.
C30_RiskRewardDefined ==
    estimate.called => estimate.rawEntryPrice # estimate.rawStopLoss

----------------------------------------------------------------------------
(* Properties of the monitoring loop                                       *)

\* A poll is running: it is suspended at one of its awaits.
TickInProgress == mon.pc \in {"fetch", "analyze", "search"}

\* C10: while the monitor has not been stopped no error raised inside a
\* tick ends the loop: a started, running monitor always has a tick in
\* progress or the timer of the next tick pending.
C10_ErrorsNeverEndLoop ==
    (mon.started /\ mon.running) => (TickInProgress \/ mon.timer)

\* C11: when fetching news fails in a tick, that failure is reported through
\* onStatus during that tick: a tick whose fetch failed has called onStatus
\* with the error by the time it ends.
C11_FetchFailureReported ==
    (mon.fetchFailed /\ mon.pc \in {"idle", "failed"}) => mon.errorStatus

\* The headlines onNews was called with in the current tick
DeliveredHeadlines == [i \in DOMAIN mon.delivered |-> mon.delivered[i].headline]

\* C12: after the stop function has been called no new tick is started or
\* scheduled (pollCount stays what it was and no timer is set by the tick
\* that ends), and a tick that was in flight at the call has, when it ends,
\* passed every item its filter kept to onNews.
C12_StopLetsTickFinish ==
    (mon.started /\ ~mon.running) =>
        /\ mon.pollCount = mon.pollCountAtStop
        /\ mon.pc \in {"idle", "failed"} => ~mon.timer \/ ~mon.stoppedInTick
        /\ (mon.stoppedInTick /\ mon.pc \in {"idle", "failed"})
               => DeliveredHeadlines = mon.tickItems

\* C13: every market of every result the monitor's tick passed to onNews
\* carries its fair-value estimate.
C13_DeliveredMarketsCarryFairValue ==
    \A i \in DOMAIN mon.delivered :
        \A j \in DOMAIN mon.delivered[i].affectedMarkets :
            mon.delivered[i].affectedMarkets[j].hasFairValue

\* The number of times this instance passed a headline with the normalized
\* form n to onNews
TimesDelivered(n) ==
    Cardinality({i \in DOMAIN mon.deliveredAll :
                     normalized(mon.deliveredAll[i]) = n})

\* No poll of the instance is suspended: its last tick returned or threw
BetweenTicks == mon.started /\ mon.pc \in {"idle", "failed"}

\* C23: a headline accepted by one monitor instance does not make a later
\* instance reject it: every headline an instance's filter rejected
\* duplicates a headline that this same instance accepted.
C23_InstancesDoNotInterfere ==
    \A h \in mon.rejectedHere :
        \E a \in mon.acceptedHere :
            a = normalized(h) \/ TooSimilar(normalized(h), a)

\* C26: at most one timer for a next tick is pending, and while one is
\* pending no tick is in progress, so a tick starts only after the tick
\* before it has finished its fetches and callbacks.
C26_OneTickOneTimer ==
    /\ mon.timers <= 1
    /\ mon.timers = 1 => ~TickInProgress
    /\ mon.timer <=> mon.timers = 1

\* The second tick of a running monitor has finished and the timer of the
\* third is pending.
C26_Witness ==
    /\ mon.running
    /\ mon.pollCount = 2
    /\ mon.pc = "idle"
    /\ mon.timers = 1
    /\ mon.deliveredAll # <<>>

\* C27: between ticks, every headline the instance's filter accepted has
\* been passed to onNews exactly once, however often the source returned
\* it.
C27_DeliveredExactlyOnce ==
    BetweenTicks => \A n \in mon.acceptedHere : TimesDelivered(n) = 1

\* C28: when a tick has ended, every headline the deduplicator accepted in
\* it has been passed to onNews; none is dropped while it stays registered.
C28_AcceptedIsDelivered ==
    BetweenTicks =>
        \A n \in mon.acceptedHere :
            Has(seenHeadlines, n) =>
                \E i \in DOMAIN mon.deliveredAll :
                    normalized(mon.deliveredAll[i]) = n

----------------------------------------------------------------------------
(* Properties of the verification agent                                     *)

PairsReturned == {verification.matchedPairs[i] : i \in DOMAIN verification.matchedPairs}

C16_ArbitrageIffSafeAndSpread ==
    \A pair \in PairsReturned :
        pair.polyHasPrice =>
            ( pair.arbitrageOpportunity
              <=> ( /\ pair.recommendation = "SAFE_TO_TRADE"
                    /\ Abs(pair.kalshiPrice - pair.polyPrice) > 3 ) )

----------------------------------------------------------------------------
(* Properties of the trade sizer                                            *)

\* C17: the action is BUY exactly when edge > 0.03, SELL exactly when
\* edge < -0.03 and HOLD otherwise; an edge with 0.03 < |edge| <= 0.05 is
\* hold for getSignal at every confidence and liquidity and BUY or SELL for
\* generateTradeRecommendation.
C17_ActionThreshold ==
    trade.called =>
        /\ trade.action = "BUY" <=> trade.edge > 30
        /\ trade.action = "SELL" <=> trade.edge < -30
        /\ trade.action = "HOLD" <=> (trade.edge >= -30 /\ trade.edge <= 30)
        /\ (Abs(trade.edge) > 30 /\ Abs(trade.edge) <= 50) =>
              /\ trade.action \in {"BUY", "SELL"}
              /\ \A c \in Confidences, l \in Liquidities :
                    getSignal(trade.edge * 10000, c, l).signal = "hold"

C17_Witness ==
    /\ trade.called
    /\ trade.edge = 40
    /\ trade.action = "BUY"
    /\ getSignal(trade.edge * 10000, 90, 100000).signal = "hold"

C19_SizeMultipleOfTwentyFive ==
    trade.called => trade.suggestedSize % 25 = 0

----------------------------------------------------------------------------
(* Properties of similarity                                                 *)

\* A string with no word: every piece of its split is empty
NoWords(s) == TokenSet(s) \subseteq {<<>>}

\* C20: similarity(a, b) is 0 when neither a nor b contains a word, and the
\* division it returns never has a zero denominator.
C20_ZeroWhenNoWords ==
    simCall.called =>
        /\ simCall.den # 0
        /\ (NoWords(simCall.a) /\ NoWords(simCall.b)) => simCall.num = 0

----------------------------------------------------------------------------
(* Properties of the quick analysis                                         *)

\* C21: with a collaborator credential missing (GROK_API_KEY or
\* REPLAY_LABS_API_KEY) quickAnalyze still completes and returns a result.
C21_CompletesWithoutCredentials ==
    (quick.outcome # "none" /\ (~quick.grokKey \/ ~quick.replayKey))
        => quick.outcome = "returned"

\* C22: no signal quickAnalyze returns is computed from a current price
\* outside [0, 1]: such a market is rejected, not estimated and sized.
C22_OutOfContractPriceRejected ==
    quick.outcome = "returned" =>
        \A i \in DOMAIN quick.markets :
            quick.markets[i].currentPrice >= 0 /\ quick.markets[i].currentPrice <= 100

\* C25: when the analyzer's reply cannot be parsed as JSON (the body of the
\* response or the content of the message), the analysis is the default
\* one (neutral, 0.5, 0.3) and quickAnalyze returns with no signal.
C25_UnparseableReplyGivesDefault ==
    ( /\ quick.outcome # "none"
      /\ quick.grokKey
      /\ quick.reply \in {"body_not_json", "content_not_json"} )
    => /\ quick.outcome = "returned"
       /\ quick.analysis = DefaultAnalysis
       /\ quick.markets = <<>>

====
